---- MODULE Spec2Model ----
(***************************************************************************)
(* Model of the Conan recipe cyclonedds/all/conanfile.py (class            *)
(* CycloneDDSConan).  The state is the recipe object as Conan drives it:   *)
(* self.settings, self.options, the declared requirements, the toolchain   *)
(* variables written by generate, the package folder after package, and    *)
(* self.cpp_info / buildenv_info / runenv_info after package_info.         *)
(* Conan calls config_options, then configure, and afterwards the other    *)
(* methods of the flow it is running; every method is one action.          *)
(***************************************************************************)
EXTENDS Integers, Sequences, FiniteSets, TLC

VARIABLES settings, options, outcome, requires, validation,
          tc_variables, tc_cache_variables, generated,
          rules, installed, files, cpp_info, buildenv_PATH, runenv_PATH

vars == <<settings, options, outcome, requires, validation,
          tc_variables, tc_cache_variables, generated,
          rules, installed, files, cpp_info, buildenv_PATH, runenv_PATH>>

(***************************************************************************)
(* Bounds of the explored inputs.                                          *)
(***************************************************************************)
\* compiler majors explored around each family's table entry
VersionSpread == 1
\* compiler minors explored: none, 0 .. MaxMinor
MaxMinor == 1

None == "None"

(***************************************************************************)
(* Python name resolution.                                                 *)
(***************************************************************************)
\* names bound at module level by the import statements and assignments
ModuleGlobals ==
    {"ConanFile", "check_min_cppstd", "CMakeToolchain", "CMakeDeps", "CMake",
     "cmake_layout", "get", "apply_conandata_patches", "copy",
     "export_conandata_patches", "rmdir", "rm", "Version", "os",
     "required_conan_version", "CycloneDDSConan"}

\* evaluating a bare name: a name bound neither at module level nor as a
\* builtin raises NameError
LookupGlobal(name) == IF name \in ModuleGlobals THEN "ok" ELSE "NameError"

\* attributes the class body defines
ClassMembers ==
    {"name", "license", "url", "homepage", "description", "topics",
     "package_type", "settings", "options", "default_options", "short_paths",
     "_min_cppstd", "_compilers_minimum_version", "export_sources",
     "config_options", "configure", "layout", "requirements", "validate",
     "build_requirements", "source", "generate", "build", "package",
     "package_info"}

\* evaluating self.<attr>: an attribute the class does not define raises
\* AttributeError
LookupSelf(attr) == IF attr \in ClassMembers THEN "ok" ELSE "AttributeError"

(***************************************************************************)
(* Declarations of the recipe.                                             *)
(***************************************************************************)
OptionNames ==
    {"shared", "fPIC", "with_ssl", "with_shm", "enable_security",
     "enable_discovery"}

default_options ==
    [shared |-> FALSE, fPIC |-> TRUE, with_ssl |-> FALSE, with_shm |-> FALSE,
     enable_security |-> FALSE, enable_discovery |-> TRUE]

_min_cppstd == "14"

\* the table's version strings, as the item tuples Version() parses them to
_compilers_minimum_version ==
    [c \in {"gcc", "clang", "apple-clang", "msvc", "Visual Studio"} |->
        CASE c = "gcc" -> <<7>>
          [] c = "clang" -> <<7>>
          [] c = "apple-clang" -> <<10>>
          [] c = "msvc" -> <<192>>
          [] c = "Visual Studio" -> <<16>>]

\* dict.get(key, None)
DictGet(d, key) == IF key \in DOMAIN d THEN d[key] ELSE None

(***************************************************************************)
(* conan.tools.scm.Version: a version is its tuple of numeric items;       *)
(* comparison is on the tuples with trailing zeros dropped, as Python      *)
(* compares tuples.                                                        *)
(***************************************************************************)
RECURSIVE NonZeroItems(_)
NonZeroItems(v) ==
    IF v = <<>> THEN <<>>
    ELSE IF v[Len(v)] = 0 THEN NonZeroItems(SubSeq(v, 1, Len(v) - 1))
    ELSE v

RECURSIVE TupleLT(_, _)
TupleLT(a, b) ==
    IF b = <<>> THEN FALSE
    ELSE IF a = <<>> THEN TRUE
    ELSE IF Head(a) < Head(b) THEN TRUE
    ELSE IF Head(a) > Head(b) THEN FALSE
    ELSE TupleLT(Tail(a), Tail(b))

VersionLT(a, b) == TupleLT(NonZeroItems(a), NonZeroItems(b))

(***************************************************************************)
(* The profiles explored: what Conan hands the recipe at construction.     *)
(***************************************************************************)
OSes == {"Linux", "FreeBSD", "Macos", "Windows"}

\* the table's families and one family of settings.yml the table lacks
Compilers == DOMAIN _compilers_minimum_version \cup {"intel-cc"}

VersionBase(c) ==
    IF c \in DOMAIN _compilers_minimum_version
    THEN _compilers_minimum_version[c][1]
    ELSE 2021

VersionsOf(c) ==
    LET majors == (VersionBase(c) - VersionSpread)..(VersionBase(c) + VersionSpread)
    IN  {<<m>> : m \in majors} \cup {<<m, n>> : m \in majors, n \in 0..MaxMinor}

CppstdValues == {None, "11", "14"}

LibcxxValues == {None, "libstdc++11"}

Profiles ==
    UNION {{[os |-> o, compiler |-> c, compiler_version |-> v,
             compiler_cppstd |-> std, compiler_libcxx |-> lib] :
                o \in OSes, v \in VersionsOf(c), std \in CppstdValues,
                lib \in LibcxxValues} : c \in Compilers}

Methods ==
    {"config_options", "configure", "requirements", "validate", "generate",
     "package", "package_info"}

NoComponents == [n \in {} |-> {}]

NoVariables == [n \in {} |-> FALSE]

Init ==
    /\ settings \in Profiles
    /\ options \in [OptionNames -> BOOLEAN]
    /\ outcome = [m \in Methods |-> "pending"]
    /\ requires = <<>>
    /\ validation = [checked |-> {}, site |-> None]
    /\ tc_variables = NoVariables
    /\ tc_cache_variables = NoVariables
    /\ generated = {}
    /\ rules = <<>>
    /\ installed = {}
    /\ files = {}
    /\ cpp_info = [properties |-> NoVariables, components |-> NoComponents]
    /\ buildenv_PATH = <<>>
    /\ runenv_PATH = <<>>

Finish(m, how) == outcome' = [outcome EXCEPT ![m] = how]

(***************************************************************************)
(* Options.__delattr__ and Settings.rm_safe / get_safe, as the recipe      *)
(* uses them (required_conan_version ">=2.0").                             *)
(***************************************************************************)
\* del self.options.<field>: the option must exist
DelOption(opts, field) ==
    IF field \in DOMAIN opts
    THEN [raised |-> "ok",
          options |-> [n \in DOMAIN opts \ {field} |-> opts[n]]]
    ELSE [raised |-> "ConanException", options |-> opts]

\* self.settings.rm_safe("compiler.<sub>"): never raises
RmSafe(s, sub) ==
    IF sub = "cppstd" THEN [s EXCEPT !.compiler_cppstd = None]
    ELSE IF sub = "libcxx" THEN [s EXCEPT !.compiler_libcxx = None]
    ELSE s

\* self.settings.compiler.get_safe("cppstd")
GetSafeCppstd(s) == s.compiler_cppstd

(***************************************************************************)
(* config_options and configure                                            *)
(***************************************************************************)
ConfigOptionsRun(s, opts) ==
    IF s.os = "Windows" THEN DelOption(opts, "fPIC")
    ELSE [raised |-> "ok", options |-> opts]

config_options ==
    /\ outcome["config_options"] = "pending"
    /\ LET r == ConfigOptionsRun(settings, options)
       IN  /\ options' = r.options
           /\ Finish("config_options", r.raised)
    /\ UNCHANGED <<settings, requires, validation, tc_variables,
                   tc_cache_variables, generated, rules, installed, files,
                   cpp_info,
                   buildenv_PATH, runenv_PATH>>

ConfigureRun(s, opts) ==
    LET d == IF opts["shared"] THEN DelOption(opts, "fPIC")
             ELSE [raised |-> "ok", options |-> opts]
    IN  IF d.raised # "ok"
        THEN [raised |-> d.raised, options |-> d.options, settings |-> s]
        ELSE [raised |-> "ok", options |-> d.options,
              settings |-> RmSafe(RmSafe(s, "libcxx"), "cppstd")]

configure ==
    /\ outcome["config_options"] = "ok"
    /\ outcome["configure"] = "pending"
    /\ LET r == ConfigureRun(settings, options)
       IN  /\ options' = r.options
           /\ settings' = r.settings
           /\ Finish("configure", r.raised)
    /\ UNCHANGED <<requires, validation, tc_variables, tc_cache_variables,
                   generated, rules, installed, files,
                   cpp_info, buildenv_PATH,
                   runenv_PATH>>

\* Conan runs the remaining methods on a configured recipe
Configured(m) == outcome["configure"] = "ok" /\ outcome[m] = "pending"

(***************************************************************************)
(* requirements                                                            *)
(***************************************************************************)
\* a variant that declares the TLS dependency first
RequirementsTlsFirst(opts) ==
    (IF opts["with_ssl"] THEN <<"openssl/[>=1.1 <4]">> ELSE <<>>)
    \o (IF opts["with_shm"] THEN <<"iceoryx/2.0.5">> ELSE <<>>)

Requirements(opts) ==
    (IF opts["with_shm"] THEN <<"iceoryx/2.0.5">> ELSE <<>>)
    \o (IF opts["with_ssl"] THEN <<"openssl/[>=1.1 <4]">> ELSE <<>>)

requirements ==
    /\ Configured("requirements")
    /\ requires' = Requirements(options)
    /\ Finish("requirements", "ok")
    /\ UNCHANGED <<settings, options, validation, tc_variables,
                   tc_cache_variables, generated, rules, installed, files,
                   cpp_info,
                   buildenv_PATH, runenv_PATH>>

(***************************************************************************)
(* validate                                                                *)
(***************************************************************************)
\* raise <name>(...): the name is evaluated first
Raise(name) == IF LookupGlobal(name) = "ok" THEN name ELSE "NameError"

\* the order of the language standards conan.tools.build compares by
CppstdRank(std) ==
    CASE std = "98" -> 0 [] std = "11" -> 1 [] std = "14" -> 2
      [] std = "17" -> 3 [] std = "20" -> 4 [] std = "23" -> 5

\* conan.tools.build.check_min_cppstd: raises Conan's own
\* ConanInvalidConfiguration when the configured standard is lower
check_min_cppstd(s, min) ==
    IF CppstdRank(s.compiler_cppstd) < CppstdRank(min)
    THEN "ConanInvalidConfiguration" ELSE "ok"

\* a variant that nests the compiler-version check under the cppstd test
ValidateRunGated(s, opts) ==
    IF opts["enable_security"] /\ ~opts["shared"]
    THEN [raised |-> Raise("ConanInvalidConfiguration"), site |-> "security",
          checked |-> {}]
    ELSE IF GetSafeCppstd(s) = None
    THEN [raised |-> "ok", site |-> None, checked |-> {}]
    ELSE
      LET std == check_min_cppstd(s, _min_cppstd)
          min_version == DictGet(_compilers_minimum_version, s.compiler)
      IN  IF std # "ok"
          THEN [raised |-> std, site |-> "cppstd", checked |-> {"cppstd"}]
          ELSE IF min_version # None /\ VersionLT(s.compiler_version, min_version)
          THEN [raised |-> Raise("ConanInvalidConfiguration"),
                site |-> "compiler_version",
                checked |-> {"cppstd", "compiler_version"}]
          ELSE [raised |-> "ok", site |-> None,
                checked |-> {"cppstd", "compiler_version"}]

\* the result of validate: how it ended, the statement that raised, and the
\* checks it evaluated on the way
ValidateRun(s, opts) ==
    IF opts["enable_security"] /\ ~opts["shared"]
    THEN [raised |-> Raise("ConanInvalidConfiguration"), site |-> "security",
          checked |-> {}]
    ELSE
      LET std == IF GetSafeCppstd(s) # None
                 THEN check_min_cppstd(s, _min_cppstd) ELSE "ok"
          c1  == IF GetSafeCppstd(s) # None THEN {"cppstd"} ELSE {}
          min_version == DictGet(_compilers_minimum_version, s.compiler)
      IN  IF std # "ok"
          THEN [raised |-> std, site |-> "cppstd", checked |-> c1]
          ELSE IF min_version # None /\ VersionLT(s.compiler_version, min_version)
          THEN [raised |-> Raise("ConanInvalidConfiguration"),
                site |-> "compiler_version",
                checked |-> c1 \cup {"compiler_version"}]
          ELSE [raised |-> "ok", site |-> None,
                checked |-> c1 \cup {"compiler_version"}]

validate ==
    /\ Configured("validate")
    /\ LET r == ValidateRun(settings, options)
       IN  /\ validation' = [checked |-> r.checked, site |-> r.site]
           /\ Finish("validate", r.raised)
    /\ UNCHANGED <<settings, options, requires, tc_variables,
                   tc_cache_variables, generated, rules, installed, files,
                   cpp_info,
                   buildenv_PATH, runenv_PATH>>

(***************************************************************************)
(* generate                                                                *)
(***************************************************************************)
\* self._has_idlc(): the attribute is looked up on the recipe; a method
\* whose body the class does not hold has no value to return
HasIdlcResults ==
    IF LookupSelf("_has_idlc") = "ok"
    THEN {[raised |-> "ok", value |-> b] : b \in BOOLEAN}
    ELSE {[raised |-> "AttributeError", value |-> FALSE]}

\* tc.variables after lines 122-129, given the value of self._has_idlc()
ToolchainVariables(opts, idlc) ==
    [n \in {"BUILD_IDLC", "BUILD_IDLC_TESTING", "BUILD_DDSPERF", "ENABLE_SSL",
            "ENABLE_SHM", "ENABLE_SECURITY", "ENABLE_TYPE_DISCOVERY",
            "ENABLE_TOPIC_DISCOVERY"} |->
        CASE n = "BUILD_IDLC" -> idlc
          [] n = "BUILD_IDLC_TESTING" -> FALSE
          [] n = "BUILD_DDSPERF" -> FALSE
          [] n = "ENABLE_SSL" -> opts["with_ssl"]
          [] n = "ENABLE_SHM" -> opts["with_shm"]
          [] n = "ENABLE_SECURITY" -> opts["enable_security"]
          [] n = "ENABLE_TYPE_DISCOVERY" -> opts["enable_discovery"]
          [] n = "ENABLE_TOPIC_DISCOVERY" -> opts["enable_discovery"]]

generate ==
    /\ Configured("generate")
    /\ \E idlc \in HasIdlcResults :
         IF idlc.raised # "ok"
         THEN /\ Finish("generate", idlc.raised)
              /\ UNCHANGED <<tc_variables, tc_cache_variables, generated>>
         ELSE /\ tc_variables' = ToolchainVariables(options, idlc.value)
              /\ tc_cache_variables' = [n \in {"ENABLE_LTO"} |-> FALSE]
              /\ generated' = {"CMakeToolchain", "CMakeDeps"}
              /\ Finish("generate", "ok")
    /\ UNCHANGED <<settings, options, requires, validation, rules, installed,
                   files, cpp_info, buildenv_PATH, runenv_PATH>>

(***************************************************************************)
(* package: the package folder is a set of files, each a directory (path   *)
(* components below package_folder) and a name split into the tokens the   *)
(* recipe's globs tell apart (leading stem tokens, extension).             *)
(***************************************************************************)
File(dir, stem, ext) == [dir |-> dir, stem |-> stem, ext |-> ext]

CMakeDir == <<"lib", "cmake", "CycloneDDS">>

\* os.path.join("lib", "cmake", "CycloneDDS", "CycloneDDS_idlc.cmake")
IdlcCMake == File(CMakeDir, <<"CycloneDDS_idlc">>, "cmake")

\* os.path.join("lib", "cmake", "CycloneDDS", "idlc", "Generate.cmake")
GenerateCMake == File(CMakeDir \o <<"idlc">>, <<"Generate">>, "cmake")

\* what cmake.install() of the upstream project leaves in the package folder
InstalledAlways ==
    {File(<<"include", "dds">>, <<"dds">>, "h"),
     File(<<"lib">>, <<"libddsc">>, "so"),
     File(<<"lib">>, <<"libcycloneddsidl">>, "so"),
     File(<<"bin">>, <<"idlc">>, ""),
     File(<<"share", "CycloneDDS", "examples">>, <<"CMakeLists">>, "txt"),
     File(<<"lib", "pkgconfig">>, <<"CycloneDDS">>, "pc"),
     File(CMakeDir, <<"CycloneDDSConfig">>, "cmake"),
     File(CMakeDir, <<"CycloneDDSTargets">>, "cmake"),
     GenerateCMake}

InstalledOnWindows ==
    {File(<<"bin">>, <<"ddsc">>, "dll"),
     File(<<"bin">>, <<"ddsc">>, "pdb"),
     File(<<"bin">>, <<"concrt", "140">>, "dll"),
     File(<<"bin">>, <<"msvcp", "140">>, "dll"),
     File(<<"bin">>, <<"vcruntime", "140">>, "dll")}

\* the install is the upstream build's: whether it ships a file named
\* CycloneDDS_idlc.cmake is not the recipe's to decide
InstallOutcomes(s) ==
    LET base == InstalledAlways
                \cup (IF s.os = "Windows" THEN InstalledOnWindows ELSE {})
    IN  {base, base \cup {IdlcCMake}}

IsPrefix(p, q) == Len(p) <= Len(q) /\ SubSeq(q, 1, Len(p)) = p

\* fnmatch of a name against "<prefix>*.<ext>"
FnMatch(f, pattern) == IsPrefix(pattern.prefix, f.stem) /\ f.ext = pattern.ext

Glob(prefix, ext) == [prefix |-> prefix, ext |-> ext]

RmDir(folder) == [op |-> "rmdir", folder |-> folder]

Rm(pattern, folder) == [op |-> "rm", pattern |-> pattern, folder |-> folder]

\* conan.tools.files.rmdir removes the tree; rm (recursive=False) removes
\* the matching files of the folder itself
ApplyRule(rule, fs) ==
    IF rule.op = "rmdir"
    THEN {f \in fs : ~IsPrefix(rule.folder, f.dir)}
    ELSE {f \in fs : ~(f.dir = rule.folder /\ FnMatch(f, rule.pattern))}

RECURSIVE ApplyRules(_, _)
ApplyRules(rs, fs) ==
    IF rs = <<>> THEN fs ELSE ApplyRules(Tail(rs), ApplyRule(Head(rs), fs))

WindowsPatterns ==
    <<Glob(<<>>, "pdb"), Glob(<<"concrt">>, "dll"), Glob(<<"msvcp">>, "dll"),
      Glob(<<"vcruntime">>, "dll")>>

\* a variant that strips the runtime files on every platform
PostInstallRulesAnyOS(s) ==
    <<RmDir(<<"share">>), RmDir(<<"lib", "pkgconfig">>),
      Rm(Glob(<<>>, "cmake"), CMakeDir)>>
    \o [i \in 1..Len(WindowsPatterns) |-> Rm(WindowsPatterns[i], <<"bin">>)]

\* the clean-up calls of package, in order
PostInstallRules(s) ==
    <<RmDir(<<"share">>), RmDir(<<"lib", "pkgconfig">>),
      Rm(Glob(<<>>, "cmake"), CMakeDir)>>
    \o (IF s.os = "Windows"
        THEN [i \in 1..Len(WindowsPatterns) |-> Rm(WindowsPatterns[i], <<"bin">>)]
        ELSE <<>>)

package ==
    /\ Configured("package")
    /\ \E inst \in InstallOutcomes(settings) :
         LET licensed == inst \cup {File(<<"licenses">>, <<"LICENSE">>, "")}
         IN  /\ installed' = inst
             /\ rules' = PostInstallRules(settings)
             /\ files' = ApplyRules(PostInstallRules(settings), licensed)
    /\ Finish("package", "ok")
    /\ UNCHANGED <<settings, options, requires, validation, tc_variables,
                   tc_cache_variables, generated, cpp_info, buildenv_PATH,
                   runenv_PATH>>

(***************************************************************************)
(* package_info                                                            *)
(***************************************************************************)
\* a variant that treats every platform but Windows alike
SystemLibsAnyUnix(s) ==
    IF s.os = "Windows" THEN <<"ws2_32", "dbghelp", "bcrypt", "iphlpapi">>
    ELSE <<"dl", "pthread">>

\* ddsc.system_libs (a component's system_libs start empty)
SystemLibs(s) ==
    IF s.os \in {"Linux", "FreeBSD"} THEN <<"dl", "pthread">>
    ELSE IF s.os = "Windows" THEN <<"ws2_32", "dbghelp", "bcrypt", "iphlpapi">>
    ELSE <<>>

DdscRequires(opts) ==
    (IF opts["with_shm"] THEN <<"iceoryx::iceoryx_binding_c">> ELSE <<>>)
    \o (IF opts["with_ssl"] THEN <<"openssl::openssl">> ELSE <<>>)

DdscComponent(s, opts) ==
    [properties |-> [n \in {"cmake_target_name"} |-> "CycloneDDS::ddsc"],
     libs |-> <<"ddsc">>,
     requires |-> DdscRequires(opts),
     system_libs |-> SystemLibs(s),
     cmake_build_modules |-> <<>>]

\* the paths handed to consumers as the idl component's cmake_build_modules
IdlBuildModules == <<IdlcCMake, GenerateCMake>>

IdlComponent ==
    [properties |-> [n \in {"cmake_target_name"} |-> "CycloneDDS::idl"],
     libs |-> <<"cycloneddsidl">>,
     requires |-> <<>>,
     system_libs |-> <<>>,
     cmake_build_modules |-> IdlBuildModules]

GlobalProperties ==
    [n \in {"pkg_config_name", "cmake_file_name"} |-> "CycloneDDS"]

\* os.path.join(self.package_folder, "bin")
BinPath == <<"bin">>

package_info ==
    /\ Configured("package_info")
    /\ \E idlc \in HasIdlcResults :
         LET ddsc == [n \in {"ddsc"} |-> DdscComponent(settings, options)]
         IN  IF idlc.raised # "ok"
             THEN /\ cpp_info' = [properties |-> GlobalProperties,
                                  components |-> ddsc]
                  /\ UNCHANGED <<buildenv_PATH, runenv_PATH>>
                  /\ Finish("package_info", idlc.raised)
             ELSE IF idlc.value
             THEN /\ cpp_info' =
                        [properties |-> GlobalProperties,
                         components |->
                            [n \in {"ddsc", "idl"} |->
                                IF n = "ddsc" THEN ddsc["ddsc"] ELSE IdlComponent]]
                  /\ buildenv_PATH' = <<BinPath>> \o buildenv_PATH
                  /\ runenv_PATH' = <<BinPath>> \o runenv_PATH
                  /\ Finish("package_info", "ok")
             ELSE /\ cpp_info' = [properties |-> GlobalProperties,
                                  components |-> ddsc]
                  /\ UNCHANGED <<buildenv_PATH, runenv_PATH>>
                  /\ Finish("package_info", "ok")
    /\ UNCHANGED <<settings, options, requires, validation, tc_variables,
                   tc_cache_variables, generated, rules, installed, files>>

Next ==
    \/ config_options
    \/ configure
    \/ requirements
    \/ validate
    \/ generate
    \/ package
    \/ package_info

Spec == Init /\ [][Next]_vars

(***************************************************************************)
(* Properties                                                              *)
(***************************************************************************)
Done(m) == outcome[m] # "pending"

SecurityStatic == options["enable_security"] /\ ~options["shared"]

InTable == settings.compiler \in DOMAIN _compilers_minimum_version

TooOld ==
    /\ InTable
    /\ VersionLT(settings.compiler_version,
                 _compilers_minimum_version[settings.compiler])

\* the configuration error the recipe means to report, raised by the named check
FailsWith(site) ==
    outcome["validate"] = "ConanInvalidConfiguration" /\ validation.site = site

\* C1: validate with enable_security=true and shared=false fails with the
\* IncompatibleOptions configuration error (ConanInvalidConfiguration); with
\* enable_security=true, shared=true and an adequate compiler it does not.
C1_SecurityNeedsShared ==
    Done("validate") =>
        /\ (SecurityStatic => FailsWith("security"))
        /\ (options["enable_security"] /\ options["shared"] /\ ~TooOld
                => ~FailsWith("security"))

\* C2: with no security/static conflict, a compiler family of the table
\* fails validate with ToolchainTooOld (ConanInvalidConfiguration) when its
\* version is strictly below the table entry and not otherwise; a family
\* absent from the table never does.
C2_ToolchainTooOld ==
    Done("validate") /\ ~SecurityStatic =>
        /\ (InTable /\ TooOld => FailsWith("compiler_version"))
        /\ (InTable /\ ~TooOld => ~FailsWith("compiler_version"))
        /\ (~InTable => ~FailsWith("compiler_version"))

\* C3 as stated: with no compiler.cppstd override configured, validate does
\* not perform the compiler minimum-version check, so a compiler below its
\* family's minimum does not make validate fail at that check.
C3_CheckOnlyWithOverride ==
    Done("validate") /\ settings.compiler_cppstd = None =>
        /\ "compiler_version" \notin validation.checked
        /\ validation.site # "compiler_version"

\* C3 amended: validate performs the compiler minimum-version check whether
\* or not compiler.cppstd is configured (configure has removed the setting,
\* so only check_min_cppstd is skipped): once the security/static check
\* passes the version is compared, and validate fails at the too-old raise
\* exactly for a table compiler whose version is below its minimum.
C3_VersionCheckUnconditional ==
    Done("validate") =>
        /\ "cppstd" \notin validation.checked
        /\ (~SecurityStatic => "compiler_version" \in validation.checked)
        /\ (validation.site = "compiler_version" <=> ~SecurityStatic /\ TooOld)
        /\ (validation.site = "compiler_version" => outcome["validate"] # "ok")

C3_Witness ==
    /\ Done("validate")
    /\ settings.compiler_cppstd = None
    /\ TooOld
    /\ validation.site = "compiler_version"

\* C4: on every platform and link mode config_options followed by configure
\* completes without error, leaves fPIC present iff the platform is not
\* Windows and shared is false, and leaves a present fPIC at the value it
\* had (the default true when the user gave none).
C4_FPICAfterConfigure ==
    [][configure =>
        /\ outcome'["configure"] = "ok"
        /\ ("fPIC" \in DOMAIN options'
                <=> settings.os # "Windows" /\ ~options["shared"])
        /\ ("fPIC" \in DOMAIN options' /\ "fPIC" \in DOMAIN options
                => options'["fPIC"] = options["fPIC"])]_vars

Count(seq, x) == Cardinality({i \in 1..Len(seq) : seq[i] = x})

ShmEntry == "iceoryx/2.0.5"

TlsEntry == "openssl/[>=1.1 <4]"

\* C5: the dependency list declared by requirements holds the shared-memory
\* entry once iff with_shm, the TLS entry once iff with_ssl, nothing else,
\* and the shared-memory entry before the TLS entry.
C5_Requirements ==
    Done("requirements") =>
        /\ Count(requires, ShmEntry) = (IF options["with_shm"] THEN 1 ELSE 0)
        /\ Count(requires, TlsEntry) = (IF options["with_ssl"] THEN 1 ELSE 0)
        /\ \A i \in 1..Len(requires) : requires[i] \in {ShmEntry, TlsEntry}
        /\ \A i, j \in 1..Len(requires) :
              requires[i] = ShmEntry /\ requires[j] = TlsEntry => i < j

C5_Witness ==
    /\ Done("requirements")
    /\ options["with_shm"] /\ options["with_ssl"]
    /\ requires = <<ShmEntry, TlsEntry>>

\* the IDL-helper sub-build flag resolves true
IdlcFlagTrue == \E r \in HasIdlcResults : r.raised = "ok" /\ r.value

\* C6: package_info yields the "idl" descriptor iff the IDL-helper sub-build
\* flag resolves true, and yields the core "ddsc" descriptor in both cases.
C6_IdlDescriptor ==
    Done("package_info") =>
        /\ outcome["package_info"] = "ok"
        /\ "ddsc" \in DOMAIN cpp_info.components
        /\ ("idl" \in DOMAIN cpp_info.components <=> IdlcFlagTrue)

\* C7: generate completes and forwards exactly BUILD_IDLC=true,
\* BUILD_IDLC_TESTING=false, BUILD_DDSPERF=false, ENABLE_LTO=false,
\* ENABLE_SSL=with_ssl, ENABLE_SHM=with_shm, ENABLE_SECURITY=enable_security
\* and ENABLE_TYPE_DISCOVERY=ENABLE_TOPIC_DISCOVERY=enable_discovery.
C7_ForwardedVariables ==
    Done("generate") =>
        /\ outcome["generate"] = "ok"
        /\ DOMAIN tc_variables =
              {"BUILD_IDLC", "BUILD_IDLC_TESTING", "BUILD_DDSPERF", "ENABLE_SSL",
               "ENABLE_SHM", "ENABLE_SECURITY", "ENABLE_TYPE_DISCOVERY",
               "ENABLE_TOPIC_DISCOVERY"}
        /\ tc_variables["BUILD_IDLC"] = TRUE
        /\ tc_variables["BUILD_IDLC_TESTING"] = FALSE
        /\ tc_variables["BUILD_DDSPERF"] = FALSE
        /\ tc_variables["ENABLE_SSL"] = options["with_ssl"]
        /\ tc_variables["ENABLE_SHM"] = options["with_shm"]
        /\ tc_variables["ENABLE_SECURITY"] = options["enable_security"]
        /\ tc_variables["ENABLE_TYPE_DISCOVERY"] = options["enable_discovery"]
        /\ tc_variables["ENABLE_TOPIC_DISCOVERY"] = options["enable_discovery"]
        /\ DOMAIN tc_cache_variables = {"ENABLE_LTO"}
        /\ tc_cache_variables["ENABLE_LTO"] = FALSE

HasRule(r) == \E i \in 1..Len(rules) : rules[i] = r

BinGlobs ==
    {Rm(Glob(<<>>, "pdb"), <<"bin">>), Rm(Glob(<<"concrt">>, "dll"), <<"bin">>),
     Rm(Glob(<<"msvcp">>, "dll"), <<"bin">>),
     Rm(Glob(<<"vcruntime">>, "dll"), <<"bin">>)}

\* C8: the post-install rules of package always hold the removal of share,
\* of lib/pkgconfig and of *.cmake in lib/cmake/CycloneDDS, and hold the
\* four glob removals in bin iff the platform is Windows (none of them
\* otherwise).
C8_PostInstallRules ==
    Done("package") =>
        /\ HasRule(RmDir(<<"share">>))
        /\ HasRule(RmDir(<<"lib", "pkgconfig">>))
        /\ HasRule(Rm(Glob(<<>>, "cmake"), <<"lib", "cmake", "CycloneDDS">>))
        /\ \A g \in BinGlobs : HasRule(g) <=> settings.os = "Windows"
        /\ (settings.os # "Windows" =>
              \A i \in 1..Len(rules) : rules[i].folder # <<"bin">>)
        /\ (settings.os = "Windows" =>
              \A f \in files : f.dir = <<"bin">> =>
                  f.ext \notin {"pdb"} /\ f.stem \notin
                      {<<"concrt", "140">>, <<"msvcp", "140">>,
                       <<"vcruntime", "140">>})

C8_Witness ==
    /\ Done("package")
    /\ settings.os = "Windows"
    /\ \A g \in BinGlobs : HasRule(g)
    /\ File(<<"bin">>, <<"ddsc">>, "dll") \in files

\* C9 as stated: the "ddsc" descriptor has library list [ddsc], system
\* libraries dl and pthread on every Unix-like platform and ws2_32,
\* dbghelp, bcrypt, iphlpapi on Windows.
C9_SystemLibsEveryUnix ==
    Done("package_info") =>
        /\ "ddsc" \in DOMAIN cpp_info.components
        /\ cpp_info.components["ddsc"].libs = <<"ddsc">>
        /\ cpp_info.components["ddsc"].system_libs =
              (IF settings.os = "Windows"
               THEN <<"ws2_32", "dbghelp", "bcrypt", "iphlpapi">>
               ELSE <<"dl", "pthread">>)

\* C9 amended: the "ddsc" descriptor package_info fills in has library
\* list [ddsc]; its system libraries are dl and pthread on Linux and
\* FreeBSD, the four Windows libraries on Windows, and none on any other
\* platform (Macos included).
C9_SystemLibsByPlatform ==
    Done("package_info") =>
        /\ "ddsc" \in DOMAIN cpp_info.components
        /\ cpp_info.components["ddsc"].libs = <<"ddsc">>
        /\ (settings.os \in {"Linux", "FreeBSD"} =>
              cpp_info.components["ddsc"].system_libs = <<"dl", "pthread">>)
        /\ (settings.os = "Windows" =>
              cpp_info.components["ddsc"].system_libs =
                  <<"ws2_32", "dbghelp", "bcrypt", "iphlpapi">>)
        /\ (settings.os \notin {"Linux", "FreeBSD", "Windows"} =>
              cpp_info.components["ddsc"].system_libs = <<>>)

C9_Witness ==
    /\ Done("package_info")
    /\ settings.os = "Macos"
    /\ "ddsc" \in DOMAIN cpp_info.components
    /\ cpp_info.components["ddsc"].system_libs = <<>>

\* C10: after package, each of the two build-integration paths attached to
\* the "idl" component names a file no cleanup rule has removed: a path the
\* install produced is still in the package folder.
C10_BuildModulesKept ==
    Done("package") =>
        \A i \in 1..Len(IdlBuildModules) :
            IdlBuildModules[i] \in installed => IdlBuildModules[i] \in files

====
